---- MODULE Spec2Model ----
(***************************************************************************)
(* Model of the Quantum-Virtual-Machine simulator artifacts:               *)
(*   - save_ibm_simulators (src/qiskit/save_ibm_simulators.py), which      *)
(*     builds one AerSimulator per (backend, method) and dills it to disk; *)
(*   - QiskitQuantumSimulator (src/qiskit/qiskit_quantum_simulator.py),    *)
(*     which validates its arguments, loads the artifact and runs          *)
(*     circuits through it.                                                *)
(*                                                                         *)
(* A string the code only compares or prints is a TLA+ string.  A path is  *)
(* a sequence of tokens in which "/" is the separator, so that             *)
(* os.path.join can be computed as posixpath computes it.                  *)
(***************************************************************************)
EXTENDS Naturals, Sequences, FiniteSets, TLC

VARIABLES
    basePath,               \* IBM_SIMULATORS_BASE_PATH of the process environment
    verbose,                \* save_ibm_simulators' verbose argument
    disk,                   \* the files: path -> content
    dirs,                   \* the directories that exist
    bpc,                    \* save_ibm_simulators: position in the function
    bi,                     \* index into target_backends
    mi,                     \* index into simulation_methods
    backend,                \* the handle service.backend returned
    simulator,              \* the AerSimulator of the current iteration
    out,                    \* the lines printed so far
    bexc,                   \* the exception that left save_ibm_simulators
    faults,                 \* failures of the collaborators so far
    handles,                \* backend name -> how the handle request ended
    outcome,                \* <<backend, method>> -> how the iteration ended
    written,                \* the paths opened for writing
    rstate,                 \* QiskitQuantumSimulator: "none", "ok" or "raised"
    argBackend,             \* __init__'s ibm_backend argument
    argMethod,              \* __init__'s simulation_method argument
    self_ibm_backend_name,  \* self.__ibm_backend_name
    self_simulation_method, \* self.__simulation_method
    self_simulator,         \* self.__simulator
    rexc,                   \* the exception that left __init__
    rpath,                  \* the filepath __set_simulator resolved
    opened,                 \* the paths opened for reading
    calls,                  \* the calls made into qiskit (transpile, Sampler, run)
    lastCall,               \* the last public method called on the object
    ncalls                  \* the number of public method calls

envVars == <<basePath, verbose, disk, dirs>>
builderVars == <<bpc, bi, mi, backend, simulator, out, bexc, faults, handles,
                 outcome, written>>
runnerVars == <<rstate, argBackend, argMethod, self_ibm_backend_name,
                self_simulation_method, self_simulator, rexc, rpath, opened,
                calls, lastCall, ncalls>>
vars == <<envVars, builderVars, runnerVars>>

----------------------------------------------------------------------------
(* Bounds of the model. *)

\* failures the collaborators (service, SDK, filesystem) produce in one run
MaxFaults == 1
\* public method calls made on one QiskitQuantumSimulator
MaxCalls == 2

----------------------------------------------------------------------------
(* Strings and paths. *)

RECURSIVE Concat(_)
Concat(parts) == IF parts = <<>> THEN "" ELSE Head(parts) \o Concat(Tail(parts))

Range(s) == { s[i] : i \in 1..Len(s) }

\* os.getenv returns None for a variable that is not set
NoneValue == <<"<None>">>

\* the values IBM_SIMULATORS_BASE_PATH takes: unset, "", "/data", "/data/"
BasePaths == { NoneValue, <<>>, <<"/", "data">>, <<"/", "data", "/">> }

\* posixpath.join(a, b) for one component b
Join2(a, b) ==
    IF b # <<>> /\ Head(b) = "/" THEN b
    ELSE IF a = <<>> \/ a[Len(a)] = "/" THEN a \o b
    ELSE a \o <<"/">> \o b

\* os.path.join(a, b, c)
Join3(a, b, c) == Join2(Join2(a, b), c)

\* os.path.join raises TypeError when its first argument is None
JoinRaises(a) == a = NoneValue

----------------------------------------------------------------------------
(* Objects, files, printed lines, exceptions. *)

NoObject == [kind |-> "none", hasRun |-> FALSE, backend |-> "-", method |-> "-",
             device |-> "-"]

\* an object that unpickles but is no simulator (it has no run attribute)
PlainObject == [kind |-> "dict", hasRun |-> FALSE, backend |-> "-", method |-> "-",
                device |-> "-"]

\* an object that is no AerSimulator but has a run attribute
DuckObject == [kind |-> "duck", hasRun |-> TRUE, backend |-> "-", method |-> "-",
               device |-> "-"]

NoHandle == [name |-> "-"]

\* a file dill.dump finished
Complete(obj) == [complete |-> TRUE, obj |-> obj]

\* a file open(filepath, "wb") created or truncated and no dump finished
Truncated == [complete |-> FALSE, obj |-> NoObject]

EmptyDisk == << >>

NoException == [kind |-> "none", origin |-> "-"]

Line(kind, b, m, p) == [kind |-> kind, backend |-> b, method |-> m, filepath |-> p]

----------------------------------------------------------------------------
(* save_ibm_simulators: its tables. *)

target_backends == <<"ibm_brisbane", "ibm_sherbrooke">>

simulation_methods ==
    << "aer_simulator_statevector",
       "aer_simulator_density_matrix",
       "aer_simulator_stabilizer",
       "aer_simulator_matrix_product_state",
       "aer_simulator_extended_stabilizer",
       "aer_simulator_unitary",
       "aer_simulator_superop",
       "aer_simulator_statevector_gpu",
       "aer_simulator_density_matrix_gpu",
       "aer_simulator_unitary_gpu" >>

\* the spelling of each method name, cut where "aer_simulator_" and "_gpu" occur
MethodParts ==
    << <<"aer_simulator_", "statevector">>,
       <<"aer_simulator_", "density_matrix">>,
       <<"aer_simulator_", "stabilizer">>,
       <<"aer_simulator_", "matrix_product_state">>,
       <<"aer_simulator_", "extended_stabilizer">>,
       <<"aer_simulator_", "unitary">>,
       <<"aer_simulator_", "superop">>,
       <<"aer_simulator_", "statevector", "_gpu">>,
       <<"aer_simulator_", "density_matrix", "_gpu">>,
       <<"aer_simulator_", "unitary", "_gpu">> >>

PartsOf(method) ==
    MethodParts[CHOOSE i \in 1..Len(simulation_methods) : simulation_methods[i] = method]

\* str.replace(old, "") on a string given by its parts
RECURSIVE Remove(_, _)
Remove(parts, old) ==
    IF parts = <<>> THEN <<>>
    ELSE IF Head(parts) = old THEN Remove(Tail(parts), old)
    ELSE <<Head(parts)>> \o Remove(Tail(parts), old)

\* "GPU" if method.endswith("_gpu") else "CPU"
DeviceOf(method) ==
    IF PartsOf(method)[Len(PartsOf(method))] = "_gpu" THEN "GPU" ELSE "CPU"

\* method.replace("aer_simulator_", "").replace("_gpu", "")
BaseMethodOf(method) == Concat(Remove(Remove(PartsOf(method), "aer_simulator_"), "_gpu"))

\* AerSimulator.from_backend(backend) followed by set_options(method, device)
BuildSimulator(handle, method) ==
    [kind |-> "AerSimulator", hasRun |-> TRUE, backend |-> handle.name,
     method |-> BaseMethodOf(method), device |-> DeviceOf(method)]

\* root_dir = os.path.join(base_path, "ibm_simulators")
RootDir(base_path) == Join2(base_path, <<"ibm_simulators">>)

\* backend_dir = os.path.join(root_dir, backend_name)
BackendDir(base_path, backend_name) == Join2(RootDir(base_path), <<backend_name>>)

\* BuilderFilepath with the file put in root_dir instead of backend_dir
BuilderFilepath_NoBackendDir(base_path, backend_name, method) ==
    Join2(RootDir(base_path), <<method \o ".dill">>)

\* filepath = os.path.join(backend_dir, f"{method}.dill")
BuilderFilepath(base_path, backend_name, method) ==
    Join2(BackendDir(base_path, backend_name), <<method \o ".dill">>)

\* Emit without the test of verbose
Emit_Always(line) == Append(out, line)

\* if verbose: print(line)
Emit(line) == IF verbose THEN Append(out, line) ELSE out

\* whether a collaborator may fail at this step
Fails == IF faults < MaxFaults THEN {FALSE, TRUE} ELSE {FALSE}

backend_name == target_backends[bi]
method == simulation_methods[mi]

\* the for loop over target_backends moves on
AdvanceBackend ==
    /\ bpc' = IF bi < Len(target_backends) THEN "backend" ELSE "done"
    /\ bi' = IF bi < Len(target_backends) THEN bi + 1 ELSE bi
    /\ mi' = 1

\* the for loop over simulation_methods moves on
AdvanceMethod ==
    IF mi < Len(simulation_methods)
    THEN bpc' = "construct" /\ mi' = mi + 1 /\ bi' = bi
    ELSE AdvanceBackend

\* except Exception as e: if verbose: print("Failed to save simulator ...")
SaveFailed(stage) ==
    /\ out' = Emit(Line("failed_save", backend_name, method, <<>>))
    /\ outcome' = (<<backend_name, method>> :> stage) @@ outcome
    /\ faults' = faults + 1
    /\ AdvanceMethod

----------------------------------------------------------------------------
(* save_ibm_simulators: its steps. *)

\* root_dir = os.path.join(...); os.makedirs(root_dir, exist_ok=True)
MakeRootDir ==
    /\ bpc = "start"
    /\ IF JoinRaises(basePath)
       THEN /\ bpc' = "raised"
            /\ bexc' = [kind |-> "TypeError", origin |-> "os.path.join"]
            /\ UNCHANGED <<dirs, faults>>
       ELSE \E fail \in Fails :
              IF fail
              THEN /\ bpc' = "raised"
                   /\ bexc' = [kind |-> "OSError", origin |-> "os.makedirs(root_dir)"]
                   /\ faults' = faults + 1
                   /\ UNCHANGED dirs
              ELSE /\ bpc' = "service"
                   /\ dirs' = dirs \cup {RootDir(basePath)}
                   /\ UNCHANGED <<bexc, faults>>
    /\ UNCHANGED <<basePath, verbose, disk, bi, mi, backend, simulator, out,
                   handles, outcome, written>>
    /\ UNCHANGED runnerVars

\* service = QiskitRuntimeService(...), RuntimeError when it raises
InitService ==
    /\ bpc = "service"
    /\ \E fail \in Fails :
         IF fail
         THEN /\ bpc' = "raised"
              /\ bexc' = [kind |-> "RuntimeError", origin |-> "QiskitRuntimeService"]
              /\ faults' = faults + 1
              /\ UNCHANGED bi
         ELSE /\ bpc' = "backend"
              /\ bi' = 1
              /\ UNCHANGED <<bexc, faults>>
    /\ UNCHANGED <<envVars, mi, backend, simulator, out, handles, outcome, written>>
    /\ UNCHANGED runnerVars

\* RequestBackend without the continue of its except branch
RequestBackend_NoContinue ==
    /\ bpc = "backend"
    /\ \E fail \in Fails :
         IF fail
         THEN /\ out' = Emit(Line("failed_backend", backend_name, "-", <<>>))
              /\ handles' = (backend_name :> "failed") @@ handles
              /\ faults' = faults + 1
              /\ bpc' = "mkdir"
              /\ UNCHANGED <<backend, bi, mi>>
         ELSE /\ backend' = [name |-> backend_name]
              /\ handles' = (backend_name :> "ok") @@ handles
              /\ bpc' = "mkdir"
              /\ UNCHANGED <<out, faults, bi, mi>>
    /\ UNCHANGED <<envVars, simulator, bexc, outcome, written>>
    /\ UNCHANGED runnerVars

\* backend = service.backend(backend_name), print and continue when it raises
RequestBackend ==
    /\ bpc = "backend"
    /\ \E fail \in Fails :
         IF fail
         THEN /\ out' = Emit(Line("failed_backend", backend_name, "-", <<>>))
              /\ handles' = (backend_name :> "failed") @@ handles
              /\ faults' = faults + 1
              /\ AdvanceBackend
              /\ UNCHANGED backend
         ELSE /\ backend' = [name |-> backend_name]
              /\ handles' = (backend_name :> "ok") @@ handles
              /\ bpc' = "mkdir"
              /\ UNCHANGED <<out, faults, bi, mi>>
    /\ UNCHANGED <<envVars, simulator, bexc, outcome, written>>
    /\ UNCHANGED runnerVars

\* backend_dir = os.path.join(root_dir, backend_name); os.makedirs(backend_dir, ...)
MakeBackendDir ==
    /\ bpc = "mkdir"
    /\ \E fail \in Fails :
         IF fail
         THEN /\ bpc' = "raised"
              /\ bexc' = [kind |-> "OSError", origin |-> "os.makedirs(backend_dir)"]
              /\ faults' = faults + 1
              /\ UNCHANGED <<dirs, mi>>
         ELSE /\ bpc' = "construct"
              /\ mi' = 1
              /\ dirs' = dirs \cup {BackendDir(basePath, backend_name)}
              /\ UNCHANGED <<bexc, faults>>
    /\ UNCHANGED <<basePath, verbose, disk, bi, backend, simulator, out, handles,
                   outcome, written>>
    /\ UNCHANGED runnerVars

\* simulator = AerSimulator.from_backend(backend); simulator.set_options(...)
Construct ==
    /\ bpc = "construct"
    /\ \E fail \in Fails :
         IF fail
         THEN /\ SaveFailed("construct_failed")
              /\ UNCHANGED simulator
         ELSE /\ simulator' = BuildSimulator(backend, method)
              /\ outcome' = (<<backend_name, method>> :> "attempting") @@ outcome
              /\ bpc' = "open"
              /\ UNCHANGED <<out, faults, bi, mi>>
    /\ UNCHANGED <<envVars, backend, bexc, handles, written>>
    /\ UNCHANGED runnerVars

\* with open(filepath, "wb") as f: the file is created, or truncated
OpenFile ==
    /\ bpc = "open"
    /\ \E fail \in Fails :
         IF fail
         THEN /\ SaveFailed("open_failed")
              /\ UNCHANGED <<disk, written>>
         ELSE /\ disk' = (BuilderFilepath(basePath, backend_name, method) :> Truncated)
                           @@ disk
              /\ written' = written \cup {BuilderFilepath(basePath, backend_name, method)}
              /\ bpc' = "dump"
              /\ UNCHANGED <<out, faults, bi, mi, outcome>>
    /\ UNCHANGED <<basePath, verbose, dirs, backend, simulator, bexc, handles>>
    /\ UNCHANGED runnerVars

\* dill.dump(simulator, f), the file is closed, print("Saved simulator ...")
Dump ==
    /\ bpc = "dump"
    /\ \E fail \in Fails :
         IF fail
         THEN /\ SaveFailed("dump_failed")
              /\ UNCHANGED disk
         ELSE /\ disk' = (BuilderFilepath(basePath, backend_name, method)
                            :> Complete(simulator)) @@ disk
              /\ out' = Emit(Line("saved", backend_name, method,
                                  BuilderFilepath(basePath, backend_name, method)))
              /\ outcome' = (<<backend_name, method>> :> "saved") @@ outcome
              /\ UNCHANGED faults
              /\ AdvanceMethod
    /\ UNCHANGED <<basePath, verbose, dirs, backend, simulator, bexc, handles, written>>
    /\ UNCHANGED runnerVars

NextBuilder ==
    \/ MakeRootDir
    \/ InitService
    \/ RequestBackend
    \/ MakeBackendDir
    \/ Construct
    \/ OpenFile
    \/ Dump

----------------------------------------------------------------------------
(* QiskitQuantumSimulator: its tables and helpers. *)

SUPPORTED_SIMULATION_METHODS ==
    { "aer_simulator_statevector",
      "aer_simulator_density_matrix",
      "aer_simulator_stabilizer",
      "aer_simulator_matrix_product_state",
      "aer_simulator_extended_stabilizer",
      "aer_simulator_unitary",
      "aer_simulator_superop",
      "aer_simulator_statevector_gpu",
      "aer_simulator_density_matrix_gpu",
      "aer_simulator_unitary_gpu" }

AVAILABLE_BACKENDS == { "ibm_brisbane", "ibm_sherbrooke" }

\* an attribute __init__ has not assigned
Unset == "<unset>"

\* no filepath was resolved
NoPath == <<"<unresolved>">>

NoError == [kind |-> "none", origin |-> "-", arg |-> <<>>, cause |-> "-"]

\* ValueError(f"Unsupported IBM backend: '{ibm_backend}'. ...")
BackendError(ibm_backend) ==
    [kind |-> "ValueError", origin |-> "Unsupported IBM backend",
     arg |-> <<ibm_backend>>, cause |-> "-"]

\* ValueError(f"Unsupported simulation method: '{method}'. ...")
MethodError(m) ==
    [kind |-> "ValueError", origin |-> "Unsupported simulation method",
     arg |-> <<m>>, cause |-> "-"]

\* IOError(f"Failed to load AerSimulator from {filepath}: {e}")
LoadError(filepath, e) ==
    [kind |-> "IOError", origin |-> "Failed to load AerSimulator from",
     arg |-> filepath, cause |-> e]

\* the TypeError os.path.join raises for a base path of None
JoinError ==
    [kind |-> "TypeError", origin |-> "os.path.join", arg |-> <<>>, cause |-> "-"]

\* RunnerFilepath without the "ibm_simulators" folder
RunnerFilepath_NoFolder(base_path, ibm_backend, m) ==
    Join2(Join2(base_path, <<ibm_backend>>), <<m \o ".dill">>)

\* filepath = join(join(BASE, "ibm_simulators", backend name), f"{method}.dill")
RunnerFilepath(base_path, ibm_backend, m) ==
    Join2(Join3(base_path, <<"ibm_simulators">>, <<ibm_backend>>), <<m \o ".dill">>)

\* __load_simulator: the object loaded, or the IOError every exception becomes
LoadSimulator(filepath) ==
    IF filepath \notin DOMAIN disk
    THEN [ok |-> FALSE, obj |-> NoObject, exc |-> LoadError(filepath, "FileNotFoundError")]
    ELSE IF ~disk[filepath].complete
    THEN [ok |-> FALSE, obj |-> NoObject, exc |-> LoadError(filepath, "UnpicklingError")]
    ELSE IF ~disk[filepath].obj.hasRun
    THEN [ok |-> FALSE, obj |-> NoObject, exc |-> LoadError(filepath, "TypeError")]
    ELSE [ok |-> TRUE, obj |-> disk[filepath].obj, exc |-> NoError]

\* BackendRejected that only rejects the empty name
BackendRejected_EmptyOnly(ibm_backend) == ibm_backend = ""

\* __set_ibm_backend raises
BackendRejected(ibm_backend) == ibm_backend \notin AVAILABLE_BACKENDS

\* MethodRejected that also accepts the bare method names of qiskit-aer
MethodRejected_BareNames(m) ==
    m \notin SUPPORTED_SIMULATION_METHODS \cup {"statevector"}

\* __set_simulator raises before it resolves the path
MethodRejected(m) == m \notin SUPPORTED_SIMULATION_METHODS

\* __init__: the attributes it leaves, the exception that leaves it, the path it
\* resolved and the files it opened
InitResult(ibm_backend, m) ==
    LET none == [state |-> "raised", name |-> Unset, method |-> Unset,
                 sim |-> NoObject, exc |-> NoError, path |-> NoPath, opened |-> {}]
        fp == RunnerFilepath(basePath, ibm_backend, m)
        ld == LoadSimulator(fp)
    IN  IF BackendRejected(ibm_backend)
        THEN [none EXCEPT !.exc = BackendError(ibm_backend)]
        ELSE IF MethodRejected(m)
        THEN [none EXCEPT !.name = ibm_backend, !.exc = MethodError(m)]
        ELSE IF JoinRaises(basePath)
        THEN [none EXCEPT !.name = ibm_backend, !.method = m, !.exc = JoinError]
        ELSE IF ~ld.ok
        THEN [none EXCEPT !.name = ibm_backend, !.method = m, !.exc = ld.exc,
                          !.path = fp, !.opened = {fp}]
        ELSE [none EXCEPT !.state = "ok", !.name = ibm_backend, !.method = m,
                          !.sim = ld.obj, !.path = fp, !.opened = {fp}]

\* a circuit as the caller passes it
Circuit(name) == [name |-> name, target |-> NoObject, level |-> 0]

\* transpile(circuit, backend=self.__simulator, optimization_level=1)
Transpiled(circuit, sim) == [circuit EXCEPT !.target = sim, !.level = 1]

Call(fn, pubs, sim) == [fn |-> fn, pubs |-> pubs, sim |-> sim]

\* what transpile_circuit calls
TranspileCalls(circuit) == << Call("transpile", <<circuit>>, self_simulator) >>

\* RunCalls that submits the circuit as given instead of the transpiled one
RunCalls_Untranspiled(circuit) ==
    TranspileCalls(circuit) \o
    << Call("Sampler", <<>>, self_simulator),
       Call("Sampler.run", <<circuit>>, self_simulator) >>

\* what run calls: transpile_circuit, Sampler(mode=...), sampler.run([transpiled])
RunCalls(circuit) ==
    TranspileCalls(circuit) \o
    << Call("Sampler", <<>>, self_simulator),
       Call("Sampler.run", <<Transpiled(circuit, self_simulator)>>, self_simulator) >>

\* the read-only properties
ibm_backend == self_ibm_backend_name
simulator_property == self_simulator
simulation_method == self_simulation_method

\* the arguments callers pass to __init__
BackendInputs == AVAILABLE_BACKENDS \cup { "ibm_kyoto", "" }
MethodInputs == SUPPORTED_SIMULATION_METHODS \cup { "aer_simulator_tensor_network", "statevector" }
Circuits == { Circuit("bell"), Circuit("ghz") }

----------------------------------------------------------------------------
(* QiskitQuantumSimulator: its operations. *)

\* QiskitQuantumSimulator(ibm_backend, simulation_method)
New ==
    /\ rstate = "none"
    /\ \E b \in BackendInputs, m \in MethodInputs :
         /\ argBackend' = b
         /\ argMethod' = m
         /\ rstate' = InitResult(b, m).state
         /\ self_ibm_backend_name' = InitResult(b, m).name
         /\ self_simulation_method' = InitResult(b, m).method
         /\ self_simulator' = InitResult(b, m).sim
         /\ rexc' = InitResult(b, m).exc
         /\ rpath' = InitResult(b, m).path
         /\ opened' = InitResult(b, m).opened
    /\ UNCHANGED <<calls, lastCall, ncalls>>
    /\ UNCHANGED <<envVars, builderVars>>

\* transpile_circuit(circuit)
TranspileCircuit ==
    /\ rstate = "ok"
    /\ ncalls < MaxCalls
    /\ \E c \in Circuits :
         /\ calls' = calls \o TranspileCalls(c)
         /\ lastCall' = [op |-> "transpile_circuit", circuit |-> c]
    /\ ncalls' = ncalls + 1
    /\ UNCHANGED <<rstate, argBackend, argMethod, self_ibm_backend_name,
                   self_simulation_method, self_simulator, rexc, rpath, opened>>
    /\ UNCHANGED <<envVars, builderVars>>

\* run(circuit)
Run ==
    /\ rstate = "ok"
    /\ ncalls < MaxCalls
    /\ \E c \in Circuits :
         /\ calls' = calls \o RunCalls(c)
         /\ lastCall' = [op |-> "run", circuit |-> c]
    /\ ncalls' = ncalls + 1
    /\ UNCHANGED <<rstate, argBackend, argMethod, self_ibm_backend_name,
                   self_simulation_method, self_simulator, rexc, rpath, opened>>
    /\ UNCHANGED <<envVars, builderVars>>

NextRunner ==
    \/ New
    \/ TranspileCircuit
    \/ Run

----------------------------------------------------------------------------
(* Initial states and specifications. *)

Pairs == { <<target_backends[i], simulation_methods[j]>> :
             i \in 1..Len(target_backends), j \in 1..Len(simulation_methods) }

\* the files a run of save_ibm_simulators in which nothing failed leaves
FullBuildDisk(base_path) ==
    [ p \in { BuilderFilepath(base_path, bm[1], bm[2]) : bm \in Pairs } |->
        LET bm == CHOOSE q \in Pairs : BuilderFilepath(base_path, q[1], q[2]) = p
        IN  Complete(BuildSimulator([name |-> bm[1]], bm[2])) ]

\* the directories that run leaves
FullBuildDirs(base_path) ==
    { RootDir(base_path) } \cup
    { BackendDir(base_path, target_backends[i]) : i \in 1..Len(target_backends) }

Without(d, p) == [ q \in (DOMAIN d) \ {p} |-> d[q] ]

\* the methods whose artifact the damaged stores below damage
DamagedMethods == { "aer_simulator_statevector", "aer_simulator_unitary_gpu" }

\* a full store in which one artifact is missing, cut short, or another object
DamagedDisks(base_path) ==
    UNION { LET p == BuilderFilepath(base_path, b, m)
                full == FullBuildDisk(base_path)
            IN  { Without(full, p),
                  [full EXCEPT ![p] = Truncated],
                  [full EXCEPT ![p] = Complete(PlainObject)],
                  [full EXCEPT ![p] = Complete(DuckObject)] }
            : b \in Range(target_backends), m \in DamagedMethods }

\* the stores the Runner is started on
RunnerDisks(base_path) ==
    { EmptyDisk }
    \cup { FullBuildDisk(r) : r \in BasePaths \ {NoneValue} }
    \cup (IF base_path = NoneValue THEN {} ELSE DamagedDisks(base_path))

\* the stores save_ibm_simulators is started on: none, or an earlier run's
BuilderDisks(base_path) ==
    { EmptyDisk } \cup (IF base_path = NoneValue THEN {} ELSE { FullBuildDisk(base_path) })

InitBuilderVars ==
    /\ bpc = "start"
    /\ bi = 1
    /\ mi = 1
    /\ backend = NoHandle
    /\ simulator = NoObject
    /\ out = <<>>
    /\ bexc = NoException
    /\ faults = 0
    /\ handles = <<>>
    /\ outcome = <<>>
    /\ written = {}

InitRunnerVars ==
    /\ rstate = "none"
    /\ argBackend = Unset
    /\ argMethod = Unset
    /\ self_ibm_backend_name = Unset
    /\ self_simulation_method = Unset
    /\ self_simulator = NoObject
    /\ rexc = NoError
    /\ rpath = NoPath
    /\ opened = {}
    /\ calls = <<>>
    /\ lastCall = [op |-> "none", circuit |-> Circuit("-")]
    /\ ncalls = 0

\* the module calls save_ibm_simulators(base_path=IBM_SIMULATORS_BASE_PATH, ...)
InitBuilder ==
    /\ basePath \in BasePaths
    /\ verbose \in BOOLEAN
    /\ disk \in BuilderDisks(basePath)
    /\ dirs = IF disk = EmptyDisk THEN {} ELSE FullBuildDirs(basePath)
    /\ InitBuilderVars
    /\ InitRunnerVars

\* a process that imports QiskitQuantumSimulator over some artifact store
InitRunner ==
    /\ basePath \in BasePaths
    /\ verbose = TRUE
    /\ disk \in RunnerDisks(basePath)
    /\ dirs = {}
    /\ InitBuilderVars
    /\ InitRunnerVars

SpecBuilder == InitBuilder /\ [][NextBuilder]_vars

SpecRunner == InitRunner /\ [][NextRunner]_vars

----------------------------------------------------------------------------
(* Vocabulary of the properties. *)

\* path p lies inside directory d
Under(p, d) ==
    /\ Len(p) > Len(d) + 1
    /\ SubSeq(p, 1, Len(d)) = d
    /\ p[Len(d) + 1] = "/"

IsFailureLine(l) == l.kind \in {"failed_backend", "failed_save"}
IsSavedLine(l) == l.kind = "saved"

FailedStages == {"construct_failed", "open_failed", "dump_failed"}

Constructed == rstate # "none"

ValidPair == argBackend \in AVAILABLE_BACKENDS /\ argMethod \in SUPPORTED_SIMULATION_METHODS

\* every (backend, method) iteration of the run ended with its file saved
AllSaved == \A bm \in Pairs : bm \in DOMAIN outcome /\ outcome[bm] = "saved"

----------------------------------------------------------------------------
(* C1 *)

\* C1: constructing QiskitQuantumSimulator with a backend name outside the
\* allow-list fails with a ValueError that names the offending backend, whatever
\* the simulation method is, and opens no artifact file.
C1_InvalidBackendRaisesValueError ==
    (Constructed /\ argBackend \notin {"ibm_brisbane", "ibm_sherbrooke"}) =>
        /\ rstate = "raised"
        /\ rexc.kind = "ValueError"
        /\ rexc.arg = <<argBackend>>
        /\ rpath = NoPath
        /\ opened = {}

C1_Witness ==
    /\ rstate = "raised"
    /\ argBackend = "ibm_kyoto"
    /\ argMethod = "aer_simulator_statevector"
    /\ rexc = BackendError("ibm_kyoto")

----------------------------------------------------------------------------
(* C2 *)

\* C2: constructing QiskitQuantumSimulator with a method name outside the ten
\* allow-listed names fails with a ValueError whether the backend is valid or
\* not (naming the method when the backend is valid), before any artifact path
\* is resolved or read.
C2_InvalidMethodRaisesValueError ==
    (Constructed /\ argMethod \notin SUPPORTED_SIMULATION_METHODS) =>
        /\ rstate = "raised"
        /\ rexc.kind = "ValueError"
        /\ (argBackend \in AVAILABLE_BACKENDS => rexc.arg = <<argMethod>>)
        /\ rpath = NoPath
        /\ opened = {}

C2_Witness ==
    /\ rstate = "raised"
    /\ argBackend = "ibm_brisbane"
    /\ argMethod = "aer_simulator_tensor_network"
    /\ rexc = MethodError("aer_simulator_tensor_network")

----------------------------------------------------------------------------
(* C3 *)

\* the artifact of the constructor's arguments, where save_ibm_simulators puts it
ArtifactOfArgs == BuilderFilepath(basePath, argBackend, argMethod)

\* that artifact exists and unpickles to an object with a run attribute
ArtifactLoadable ==
    /\ basePath # NoneValue
    /\ ArtifactOfArgs \in DOMAIN disk
    /\ disk[ArtifactOfArgs].complete
    /\ disk[ArtifactOfArgs].obj.hasRun

\* C3: for an allow-listed (backend, method) whose artifact file exists and
\* deserializes to an object with a run capability, construction succeeds, and
\* ibm_backend, simulation_method and simulator return the backend passed in,
\* the method passed in and the deserialized object.
C3_ValidPairLoads ==
    (Constructed /\ ValidPair /\ ArtifactLoadable) =>
        /\ rstate = "ok"
        /\ rexc = NoError
        /\ ibm_backend = argBackend
        /\ simulation_method = argMethod
        /\ simulator_property = disk[ArtifactOfArgs].obj

C3_Witness ==
    /\ rstate = "ok"
    /\ argBackend = "ibm_sherbrooke"
    /\ argMethod = "aer_simulator_unitary_gpu"
    /\ basePath = <<"/", "data", "/">>
    /\ simulator_property =
         [kind |-> "AerSimulator", hasRun |-> TRUE, backend |-> "ibm_sherbrooke",
          method |-> "unitary", device |-> "GPU"]

----------------------------------------------------------------------------
(* C4 *)

\* C4: for an allow-listed (backend, method), a construction that does not
\* succeed fails with an IOError that mentions the resolved path, and no other
\* kind of error escapes, also when the base path is unset; a missing or corrupt
\* artifact, or one without a run capability, makes the construction fail.
C4_OnlyIOErrorEscapes ==
    (Constructed /\ ValidPair) =>
        /\ (rstate = "raised" =>
              /\ rexc.kind = "IOError"
              /\ rpath # NoPath
              /\ rexc.arg = rpath)
        /\ (~ArtifactLoadable => rstate = "raised")

----------------------------------------------------------------------------
(* C5 *)

\* the steps that belong to one backend or one (backend, method) item
ItemOrigins == {"os.makedirs(backend_dir)"}

\* C5: in save_ibm_simulators the failure of a single item never aborts the run:
\* no step of a backend or of a method (handle request, construction, directory
\* or file I/O, serialization) raises out of the call, and when the call returns
\* every backend was requested and every method of every backend whose handle
\* was obtained was attempted.
C5_ItemFailureNeverAborts ==
    /\ (bpc = "raised" => bexc.origin \notin ItemOrigins)
    /\ (bpc = "done" =>
          /\ bexc = NoException
          /\ DOMAIN handles = Range(target_backends)
          /\ \A bm \in Pairs : handles[bm[1]] = "ok" => bm \in DOMAIN outcome)

----------------------------------------------------------------------------
(* C6 *)

\* verbose run in which the service gives ibm_brisbane's handle, fails for
\* ibm_sherbrooke, and every ibm_brisbane item succeeds
C6_Scenario ==
    /\ bpc = "done"
    /\ verbose
    /\ DOMAIN handles = {"ibm_brisbane", "ibm_sherbrooke"}
    /\ handles["ibm_brisbane"] = "ok"
    /\ handles["ibm_sherbrooke"] = "failed"
    /\ \A j \in 1..Len(simulation_methods) :
         /\ <<"ibm_brisbane", simulation_methods[j]>> \in DOMAIN outcome
         /\ outcome[<<"ibm_brisbane", simulation_methods[j]>>] = "saved"

C6_FilesAndReturn ==
    /\ Cardinality({ p \in written : Under(p, BackendDir(basePath, "ibm_brisbane")) }) = 10
    /\ \A p \in written : Under(p, BackendDir(basePath, "ibm_brisbane"))
                           /\ disk[p].complete
    /\ { p \in written : Under(p, BackendDir(basePath, "ibm_sherbrooke")) } = {}
    /\ Len(SelectSeq(out, IsSavedLine)) = 10
    /\ bexc = NoException

\* C6 as stated: in that scenario the run writes exactly ten files under
\* ibm_brisbane's directory and none under ibm_sherbrooke's, prints ten failure
\* lines (one per method of the failing backend), and returns normally.
C6_TenFailureLines ==
    C6_Scenario =>
        /\ C6_FilesAndReturn
        /\ Len(SelectSeq(out, IsFailureLine)) = 10

\* C6 amended: in that scenario the run writes exactly ten files under
\* ibm_brisbane's directory and none under ibm_sherbrooke's, prints exactly one
\* failure line, the one for the ibm_sherbrooke handle (none of its methods is
\* attempted), and returns normally.
C6_OneFailureLine ==
    C6_Scenario =>
        /\ C6_FilesAndReturn
        /\ SelectSeq(out, IsFailureLine)
             = << Line("failed_backend", "ibm_sherbrooke", "-", <<>>) >>
        /\ \A bm \in DOMAIN outcome : bm[1] # "ibm_sherbrooke"

C6_Witness == C6_Scenario /\ Len(out) = 11 /\ faults = 1

----------------------------------------------------------------------------
(* C7 *)

\* C7: no artifact is partially written: a save step that failed, at
\* construction or at serialization, leaves no truncated or empty file at its
\* path.
C7_FailedSaveLeavesNoPartialFile ==
    \A bm \in DOMAIN outcome :
        outcome[bm] \in FailedStages =>
            LET p == BuilderFilepath(basePath, bm[1], bm[2])
            IN  p \in DOMAIN disk => disk[p].complete

----------------------------------------------------------------------------
(* C8 *)

\* the paths of the pairs QiskitQuantumSimulator accepts, under each base path
AcceptedPathsUnder ==
    [ r \in BasePaths \ {NoneValue} |->
        { RunnerFilepath(r, b, m) :
            b \in AVAILABLE_BACKENDS, m \in SUPPORTED_SIMULATION_METHODS } ]

AcceptedPaths == AcceptedPathsUnder[basePath]

\* under every base path both components resolve an accepted pair to the same
\* path, and the twenty pairs have twenty paths
PathsAgree ==
    \A r \in BasePaths \ {NoneValue} :
        /\ \A b \in AVAILABLE_BACKENDS, m \in SUPPORTED_SIMULATION_METHODS :
             RunnerFilepath(r, b, m) = BuilderFilepath(r, b, m)
        /\ Cardinality(AcceptedPathsUnder[r]) = 20

\* C8: for every allow-listed (backend, method) the path QiskitQuantumSimulator
\* reads under a base path is the path save_ibm_simulators writes under it; the
\* Builder writes no file outside those twenty paths; and after a run in which
\* every item was saved each accepted pair has its complete artifact.
C8_SamePathBothSides ==
    /\ PathsAgree
    /\ basePath # NoneValue =>
        /\ written \subseteq AcceptedPaths
        /\ (bpc = "done" /\ AllSaved) =>
             /\ written = AcceptedPaths
             /\ \A p \in AcceptedPaths :
                  /\ p \in DOMAIN disk
                  /\ disk[p].complete
                  /\ disk[p].obj.hasRun
             /\ \A b \in AVAILABLE_BACKENDS, m \in SUPPORTED_SIMULATION_METHODS :
                  disk[RunnerFilepath(basePath, b, m)].obj.backend = b

C8_Witness ==
    /\ bpc = "done"
    /\ AllSaved
    /\ basePath = <<"/", "data", "/">>
    /\ Cardinality(written) = 20

----------------------------------------------------------------------------
(* C9 *)

\* C9 as stated: with verbose false save_ibm_simulators prints no line for any
\* failure and a failure of the service initialisation, of a backend handle, of
\* a construction or of a serialization is not signalled by an exception.
C9_SilentAndNeverRaises ==
    ~verbose =>
        /\ out = <<>>
        /\ ~(bpc = "raised" /\ bexc.origin = "QiskitRuntimeService")

\* a backend handle request, a construction, an open or a dump fails in this step
ItemFails == bpc \in {"backend", "construct", "open", "dump"} /\ faults' = faults + 1

\* the service initialisation fails in this step
ServiceFails == bpc = "service" /\ faults' = faults + 1

\* C9 amended: with verbose false save_ibm_simulators prints no line for any
\* failure; a failure of a backend handle, a construction, an open or a
\* serialization raises nothing and the run goes on; a failure of the service
\* initialisation is signalled by a RuntimeError, verbose or not.
C9_SilentItemsServiceRaises ==
    /\ [](~verbose => out = <<>>)
    /\ [][ItemFails => (bpc' # "raised" /\ bexc' = NoException
                          /\ (~verbose => out' = out))]_vars
    /\ [][ServiceFails => (bpc' = "raised" /\ bexc'.kind = "RuntimeError")]_vars

C9_Witness ==
    /\ ~verbose
    /\ bpc = "done"
    /\ out = <<>>
    /\ \E bm \in DOMAIN outcome : outcome[bm] = "dump_failed"

----------------------------------------------------------------------------
(* C10 *)

\* C10: once constructed, the object keeps its backend name, its simulation
\* method and its artifact reference through every transpile_circuit and run
\* call, and each run call makes exactly one transpile of the given circuit for
\* the loaded simulator at optimization level 1, then one Sampler on the loaded
\* simulator, then one submission of the single transpiled circuit.
C10_ImmutableAndOneSubmission ==
    /\ [][rstate = "ok" =>
            /\ rstate' = "ok"
            /\ self_ibm_backend_name' = self_ibm_backend_name
            /\ self_simulation_method' = self_simulation_method
            /\ self_simulator' = self_simulator]_vars
    /\ [][(ncalls' = ncalls + 1 /\ lastCall'.op = "run") =>
            calls' = calls \o
              << [fn |-> "transpile", pubs |-> <<lastCall'.circuit>>,
                  sim |-> self_simulator],
                 [fn |-> "Sampler", pubs |-> <<>>, sim |-> self_simulator],
                 [fn |-> "Sampler.run",
                  pubs |-> << [name |-> lastCall'.circuit.name,
                               target |-> self_simulator, level |-> 1] >>,
                  sim |-> self_simulator] >>]_vars
    /\ [][(ncalls' = ncalls + 1 /\ lastCall'.op = "transpile_circuit") =>
            calls' = calls \o
              << [fn |-> "transpile", pubs |-> <<lastCall'.circuit>>,
                  sim |-> self_simulator] >>]_vars

C10_Witness ==
    /\ rstate = "ok"
    /\ ncalls = 2
    /\ lastCall.op = "run"
    /\ Len(calls) = 4

====
